---------------------------- MODULE Spec2Model ----------------------------
(***************************************************************************)
(* A state-machine model of the Game orchestrator of eva.js                *)
(* (packages/eva.js/lib/game/Game.ts).                                     *)
(*                                                                         *)
(* JavaScript runs the orchestrator on one thread, but lifecycle hooks are *)
(* user code and may call back into the Game while one of its methods is   *)
(* still running.  The model therefore keeps an explicit call stack: every *)
(* method of Game that can invoke a hook is a frame with a program         *)
(* counter, every hook invocation is a frame of its own, and user code     *)
(* (at top level, or inside a hook) chooses nondeterministically which     *)
(* method to call next, or to return, or to throw.                         *)
(***************************************************************************)
EXTENDS Integers, Sequences, FiniteSets

(***************************************************************************)
(* Bounds of the model.                                                    *)
(***************************************************************************)
\* top-level operations (method calls by the application, and ticks)
MaxOps == 2
\* calls back into the Game made from hooks during one top-level operation
MaxCalls == 1
\* hooks that throw during one top-level operation
MaxThrows == 1
\* calls made from hooks during one operation, where only the run state
\* is explored
MaxRunCalls == 2

(***************************************************************************)
(* The population: System instances, their constructors and names, the     *)
(* scenes, their GameObjects and Components.                               *)
(***************************************************************************)
\* System instances: 1, 2, 3 are of three classes, 4 is a second instance
\* of the class of 1
SysIds == {1, 2, 3, 4}
\* a value that is neither a System nor a class (addSystem's third branch)
Invalid == 9
\* system.constructor
TypeOf(s) == IF s = 4 THEN 1 ELSE s
Types == {TypeOf(s) : s \in SysIds}
\* system.name; the class of 3 extends the class of 2 and keeps its name
NameOf(s) == IF s = 3 THEN 2 ELSE TypeOf(s)
Names == {NameOf(s) : s \in SysIds}

\* the absent scene (undefined / null)
NoScene == 0
\* scene 1 is the scene the constructor creates, scene 2 another one
SceneIds == {1, 2}
\* scene.gameObjects
SceneGameObjects(sc) == IF sc = 1 THEN <<1>> ELSE <<2>>
\* gameObject.components
Components(go) == IF go = 1 THEN <<11, 12>> ELSE <<13>>
CompIds == {11, 12, 13}
Units == SysIds \cup CompIds

\* the optional hooks: `obj.hook && obj.hook()`
HasHook(u, h) ==
  CASE u = 3 /\ h \in {"start", "lateUpdate"} -> FALSE
    [] u = 12 /\ h \in {"update", "onPause"} -> FALSE
    [] OTHER -> TRUE

\* multiScenes after destroy (null): no array at all
NullArr == <<-1>>

VARIABLES
  systems,      \* Game.systems: the registry, in order
  playing,      \* Game.playing
  started,      \* Game.started
  scene,        \* Game._scene
  multiScenes,  \* Game.multiScenes
  ticker,       \* Game.ticker: "ticker" or "null"
  tickerOn,     \* the Ticker object is emitting ticks
  listening,    \* the emitter still has its listeners
  unitStarted,  \* obj.started of every System and Component
  stack,        \* the call stack: Game methods and hooks in progress
  sig,          \* how the frame just popped ended: "none", "ok", "throw"
  log,          \* what the current top-level operation did so far
  ops,          \* top-level operations issued
  calls,        \* calls made from hooks in the current operation
  throws,       \* hooks that threw in the current operation
  destroyed,    \* destroy() has run to its end
  startCalls    \* how many times start() of each unit was invoked

vars == <<systems, playing, started, scene, multiScenes, ticker, tickerOn,
          listening, unitStarted, stack, sig, log, ops,
          calls, throws, destroyed, startCalls>>

game == <<systems, playing, started, scene, multiScenes, ticker, tickerOn,
          listening, unitStarted>>

(***************************************************************************)
(* Sequences.                                                              *)
(***************************************************************************)
Range(s) == {s[i] : i \in 1..Len(s)}

\* faulty variant: the last entry moved into the place of the deleted one
SpliceSwapLast(s, i) ==
  IF i \in 1..Len(s)
  THEN [j \in 1..(Len(s) - 1) |-> IF j = i THEN s[Len(s)] ELSE s[j]]
  ELSE s

\* array.splice(index, 1), index counted from 1; nothing past the end
Splice(s, i) ==
  IF i \in 1..Len(s)
  THEN [j \in 1..(Len(s) - 1) |-> IF j < i THEN s[j] ELSE s[j + 1]]
  ELSE s

\* array.findIndex, counted from 1, given the indexes that match; 0 when
\* nothing matches (-1 in the code)
FindIndex(matching) ==
  IF matching = {} THEN 0
  ELSE CHOOSE i \in matching : \A j \in matching : i <= j

RECURSIVE Flatten(_)
Flatten(ss) == IF ss = <<>> THEN <<>> ELSE Head(ss) \o Flatten(Tail(ss))

(***************************************************************************)
(* Frames, events.                                                         *)
(***************************************************************************)
\* a frame of a Game method: op its name, pc where it stands, u and m its
\* argument, i and arr the position and the array of its for-of loop,
\* live whether that array is this.systems itself
Frame(op, pc, u, m) ==
  [op |-> op, pc |-> pc, u |-> u, m |-> m, i |-> 1, arr |-> <<>>,
   live |-> FALSE, p |-> 0]

\* a hook of unit u in progress
HookFrame(u, h) == Frame("hook", h, u, "")

\* an event of the log; p is the params of a sceneChanged payload
Ev(k, op, u, m) == [k |-> k, op |-> op, u |-> u, m |-> m, p |-> 0]

Depth == Len(stack)
Top == stack[Depth]
Idle == stack = <<>>
InHook == ~Idle /\ Top.op = "hook"
\* the top frame is method op at pc, about to run (no completion pending)
At(op, pc) == ~Idle /\ Top.op = op /\ Top.pc = pc

ReplaceTop(f) == [stack EXCEPT ![Depth] = f]
Pop == SubSeq(stack, 1, Depth - 1)


(***************************************************************************)
(* Control: calling a hook, moving on, returning.                          *)
(***************************************************************************)
Ctl(stk, sg, evs) ==
  /\ stack' = stk
  /\ sig' = sg
  /\ log' = log \o evs

\* the top frame becomes f and goes on
Goto(f, evs) == Ctl(ReplaceTop(f), "none", evs)

\* the top frame, left as f, invokes hook h of unit u
CallHook(f, u, h) ==
  Ctl(Append(ReplaceTop(f), HookFrame(u, h)), "none", <<Ev("hook", h, u, "")>>)

\* the top frame, left as f, calls method op of the Game itself
CallSelf(f, op, u, m) ==
  Ctl(Append(ReplaceTop(f), Frame(op, "entry", u, m)), "none",
      <<Ev("call", op, u, m)>>)

\* the top frame (a method) ends, normally ("ok") with value val or by an
\* exception ("throw"); a caller that is a method of the Game gets the
\* outcome, user code (a hook, or the application) just goes on
FinishTo(stk, out, val, evs) ==
  Ctl(stk,
      IF Depth > 1 /\ stack[Depth - 1].op # "hook" THEN out ELSE "none",
      evs \o <<Ev("ret", Top.op, val, out)>>)

Finish(out, val, evs) == FinishTo(Pop, out, val, evs)

\* the outcome of what the top frame invoked at its pc ("ok" when the
\* optional hook is absent and nothing was invoked)
Outcome == IF sig = "none" THEN "ok" ELSE sig

\* console.error for a hook that threw
Report(u, what) == IF sig = "throw" THEN <<Ev("error", what, u, "")>> ELSE <<>>

Budget == <<ops, calls, throws>>

(***************************************************************************)
(* User code: the application at top level, or a hook in progress.         *)
(***************************************************************************)
\* the methods user code may call, with their arguments
UserCalls ==
  {<<"addSystem", s, "">> : s \in SysIds \cup {Invalid}}
  \cup {<<"removeSystem", s, "instance">> : s \in SysIds}
  \cup {<<"removeSystem", t, "class">> : t \in Types}
  \cup {<<"removeSystem", n, "name">> : n \in Names}
  \cup {<<"removeSystem", 0, "absent">>}
  \cup {<<op, 0, "">> : op \in {"destroySystems", "start", "pause", "resume",
                               "destroy"}}
  \cup {<<"loadScene", sc, m>> : sc \in SceneIds \cup {NoScene},
                                 m \in {"SINGLE", "MULTI_CANVAS"}}

\* the params a loadScene call may carry (0: the default, {})
Params == {0, 1}

\* the frame and the log entry of a call c with params q
CallFrame(c, q) == [Frame(c[1], "entry", c[2], c[3]) EXCEPT !.p = q]
CallEv(c, q) == [Ev("call", c[1], c[2], c[3]) EXCEPT !.p = q]
ParamsOf(c) == IF c[1] = "loadScene" /\ c[2] # NoScene THEN Params ELSE {0}

\* the application calls a method of the Game, one of cs
AppCallOf(cs) ==
  /\ Idle
  /\ ops < MaxOps
  /\ \E c \in cs : \E q \in ParamsOf(c) :
       /\ stack' = <<CallFrame(c, q)>>
       /\ log' = <<CallEv(c, q)>>
  /\ sig' = "none"
  /\ ops' = ops + 1
  /\ calls' = 0
  /\ throws' = 0
  /\ UNCHANGED <<game, destroyed, startCalls>>

\* a hook in progress calls a method of the Game, one of cs, as long as the
\* hooks of the operation made fewer than n calls
HookCallUpTo(cs, n) ==
  /\ InHook
  /\ calls < n
  /\ \E c \in cs : \E q \in ParamsOf(c) :
       /\ stack' = Append(stack, CallFrame(c, q))
       /\ log' = Append(log, CallEv(c, q))
  /\ sig' = "none"
  /\ calls' = calls + 1
  /\ UNCHANGED <<game, ops, throws, destroyed, startCalls>>

HookCallOf(cs) == HookCallUpTo(cs, MaxCalls)

AppCall == AppCallOf(UserCalls)

HookCall == HookCallOf(UserCalls)

\* a hook returns
HookReturn ==
  /\ InHook
  /\ Ctl(Pop, "ok", <<>>)
  /\ UNCHANGED <<game, Budget, destroyed, startCalls>>

\* a hook throws
HookThrow ==
  /\ InHook
  /\ throws < MaxThrows
  /\ Ctl(Pop, "throw", <<>>)
  /\ throws' = throws + 1
  /\ UNCHANGED <<game, ops, calls, destroyed, startCalls>>

(***************************************************************************)
(* The lifecycle dispatcher.                                               *)
(***************************************************************************)
\* getAllGameObjects throws when multiScenes is null (null.map)
GameObjectsThrows == multiScenes = NullArr

\* faulty variant: the secondary scenes' GameObjects first
getAllGameObjectsSecondaryFirst ==
  Flatten([k \in 1..Len(multiScenes) |-> SceneGameObjects(multiScenes[k])])
  \o (IF scene = NoScene THEN <<>> ELSE SceneGameObjects(scene))

\* the primary scene's GameObjects, then every secondary scene's
getAllGameObjects ==
  (IF scene = NoScene THEN <<>> ELSE SceneGameObjects(scene))
  \o Flatten([k \in 1..Len(multiScenes) |-> SceneGameObjects(multiScenes[k])])

\* the Components the nested loops over gameObjects visit, in order
ComponentsOf(gos) == Flatten([k \in 1..Len(gos) |-> Components(gos[k])])

\* the array a for-of loop of frame f runs over: this.systems as it is now,
\* or the array the frame holds
Arr(f) == IF f.live THEN systems ELSE f.arr

\* frame f enters its next loop, at pc, over this.systems (live) or arr
Enter(f, pc, live, arr) ==
  [f EXCEPT !.pc = pc, !.i = 1, !.live = live, !.arr = arr, !.u = 0]

\* faulty variant: one pass: lateUpdate of each element right after its update
UpdateLoopOnePass(op, pc, pcS, next) ==
  /\ At(op, pc)
  /\ LET f == Top
         a == Arr(f)
         x == IF f.u # 0 THEN f.u ELSE a[f.i]
     IN IF sig # "none"
        THEN /\ IF f.m # "late" /\ HasHook(f.u, "lateUpdate")
                THEN CallHook([f EXCEPT !.m = "late"], f.u, "lateUpdate")
                ELSE Goto([f EXCEPT !.i = f.i + 1, !.u = 0, !.m = ""], <<>>)
             /\ UNCHANGED <<unitStarted, startCalls>>
        ELSE IF f.u = 0 /\ f.i > Len(a)
        THEN /\ Goto(next, <<>>)
             /\ UNCHANGED <<unitStarted, startCalls>>
        ELSE IF ~unitStarted[x]
        THEN IF HasHook(x, "start")
             THEN /\ CallHook([f EXCEPT !.pc = pcS, !.u = x], x, "start")
                  /\ startCalls' = [startCalls EXCEPT ![x] = @ + 1]
                  /\ UNCHANGED unitStarted
             ELSE /\ Goto([f EXCEPT !.u = x], <<>>)
                  /\ unitStarted' = [unitStarted EXCEPT ![x] = TRUE]
                  /\ UNCHANGED startCalls
        ELSE /\ UNCHANGED <<unitStarted, startCalls>>
             /\ IF HasHook(x, "update")
                THEN CallHook([f EXCEPT !.u = x], x, "update")
                ELSE Goto([f EXCEPT !.i = f.i + 1, !.u = 0], <<>>)
  /\ UNCHANGED <<systems, playing, started, scene, multiScenes, ticker,
                 tickerOn, listening, Budget, destroyed>>

\* triggerStart(obj), then obj.update(e), in one try block: a loop of the
\* frame callback at pc; pcS is where it waits for start(), next the next
\* loop to enter
UpdateLoop(op, pc, pcS, next) ==
  /\ At(op, pc)
  /\ LET f == Top
         a == Arr(f)
         \* the loop variable: bound (f.u) or the next element
         x == IF f.u # 0 THEN f.u ELSE a[f.i]
     IN IF sig # "none"
        THEN \* update() returned or threw: the catch reports, the loop goes on
             /\ Goto([f EXCEPT !.i = f.i + 1, !.u = 0], Report(f.u, "update"))
             /\ UNCHANGED <<unitStarted, startCalls>>
        ELSE IF f.u = 0 /\ f.i > Len(a)
        THEN /\ Goto(next, <<>>)
             /\ UNCHANGED <<unitStarted, startCalls>>
        ELSE IF ~unitStarted[x]
        THEN \* triggerStart: obj.start && obj.start(); obj.started = true
             IF HasHook(x, "start")
             THEN /\ CallHook([f EXCEPT !.pc = pcS, !.u = x], x, "start")
                  /\ startCalls' = [startCalls EXCEPT ![x] = @ + 1]
                  /\ UNCHANGED unitStarted
             ELSE /\ Goto([f EXCEPT !.u = x], <<>>)
                  /\ unitStarted' = [unitStarted EXCEPT ![x] = TRUE]
                  /\ UNCHANGED startCalls
        ELSE /\ UNCHANGED <<unitStarted, startCalls>>
             /\ IF HasHook(x, "update")
                THEN CallHook([f EXCEPT !.u = x], x, "update")
                ELSE Goto([f EXCEPT !.i = f.i + 1, !.u = 0], <<>>)
  /\ UNCHANGED <<systems, playing, started, scene, multiScenes, ticker,
                 tickerOn, listening, Budget, destroyed>>

\* faulty variant: started set inside the try block: only when start() returned
TriggerStartDoneInTry(op, pcS, pcU) ==
  /\ At(op, pcS)
  /\ sig # "none"
  /\ Goto([Top EXCEPT !.pc = pcU], Report(Top.u, "start"))
  /\ unitStarted' = [unitStarted EXCEPT ![Top.u] = (sig = "ok")]
  /\ UNCHANGED <<systems, playing, started, scene, multiScenes, ticker,
                 tickerOn, listening, Budget, destroyed, startCalls>>

\* triggerStart after obj.start() returned or threw: reported, and started
\* is set either way; then on to obj.update at pcU
TriggerStartDone(op, pcS, pcU) ==
  /\ At(op, pcS)
  /\ sig # "none"
  /\ Goto([Top EXCEPT !.pc = pcU], Report(Top.u, "start"))
  /\ unitStarted' = [unitStarted EXCEPT ![Top.u] = TRUE]
  /\ UNCHANGED <<systems, playing, started, scene, multiScenes, ticker,
                 tickerOn, listening, Budget, destroyed, startCalls>>

\* faulty variant: one try block around the whole loop, a throw ends the loop
HookLoopAbortOnThrow(op, pc, h, what, next) ==
  /\ At(op, pc)
  /\ LET f == Top
         a == Arr(f)
     IN IF sig = "throw"
        THEN Goto(next, Report(f.u, what))
        ELSE IF sig = "ok"
        THEN Goto([f EXCEPT !.i = f.i + 1, !.u = 0], <<>>)
        ELSE IF f.i > Len(a)
        THEN Goto(next, <<>>)
        ELSE IF HasHook(a[f.i], h)
        THEN CallHook([f EXCEPT !.u = a[f.i]], a[f.i], h)
        ELSE Goto([f EXCEPT !.i = f.i + 1], <<>>)
  /\ UNCHANGED <<game, Budget, destroyed, startCalls>>

\* a loop that calls one optional hook h on every element, each call in a
\* try block of its own: lateUpdate, onPause, onResume; what is the hook
\* name the catch reports
HookLoop(op, pc, h, what, next) ==
  /\ At(op, pc)
  /\ LET f == Top
         a == Arr(f)
     IN IF sig # "none"
        THEN Goto([f EXCEPT !.i = f.i + 1, !.u = 0], Report(f.u, what))
        ELSE IF f.i > Len(a)
        THEN Goto(next, <<>>)
        ELSE IF HasHook(a[f.i], h)
        THEN CallHook([f EXCEPT !.u = a[f.i]], a[f.i], h)
        ELSE Goto([f EXCEPT !.i = f.i + 1], <<>>)
  /\ UNCHANGED <<game, Budget, destroyed, startCalls>>

(***************************************************************************)
(* The frame callback (initTicker).                                        *)
(***************************************************************************)
\* the Ticker delivers a tick
Tick ==
  /\ Idle
  /\ tickerOn
  /\ ops < MaxOps
  /\ stack' = <<Frame("tick", "entry", 0, "")>>
  /\ log' = <<Ev("call", "tick", 0, "")>>
  /\ sig' = "none"
  /\ ops' = ops + 1
  /\ calls' = 0
  /\ throws' = 0
  /\ UNCHANGED <<game, destroyed, startCalls>>

\* this.scene && gameObjectLoop(e, this.gameObjects)
TickEntry ==
  /\ At("tick", "entry")
  /\ IF scene = NoScene
     THEN Goto(Enter(Top, "sysUpdate", TRUE, <<>>), <<>>)
     ELSE IF GameObjectsThrows
     THEN Finish("throw", 0, <<>>)
     ELSE Goto(Enter(Top, "update", FALSE, ComponentsOf(getAllGameObjects)),
               <<>>)
  /\ UNCHANGED <<game, Budget, destroyed, startCalls>>

\* gameObjectLoop, first pass
TickCompUpdate ==
  UpdateLoop("tick", "update", "start", Enter(Top, "lateUpdate", FALSE, Top.arr))

TickCompStarted == TriggerStartDone("tick", "start", "update")

\* gameObjectLoop, second pass
TickCompLateUpdate ==
  HookLoop("tick", "lateUpdate", "lateUpdate", "lateUpdate",
           Enter(Top, "sysUpdate", TRUE, <<>>))

\* for (const system of this.systems): triggerStart, update
TickSysUpdate ==
  UpdateLoop("tick", "sysUpdate", "sysStart",
             Enter(Top, "sysLateUpdate", TRUE, <<>>))

TickSysStarted == TriggerStartDone("tick", "sysStart", "sysUpdate")

\* for (const system of this.systems): lateUpdate
TickSysLateUpdate ==
  HookLoop("tick", "sysLateUpdate", "lateUpdate", "lateUpdate",
           Enter(Top, "end", FALSE, <<>>))

TickEnd ==
  /\ At("tick", "end")
  /\ Finish("ok", 0, <<>>)
  /\ UNCHANGED <<game, Budget, destroyed, startCalls>>

(***************************************************************************)
(* The System registry.                                                    *)
(***************************************************************************)
\* faulty variant: the duplicate check comparing instances, not constructors
hasTheSystemByIdentity(s) == \E k \in 1..Len(systems) : systems[k] = s

\* this.systems.find(item => item.constructor === system.constructor)
hasTheSystem(s) == \E k \in 1..Len(systems) : TypeOf(systems[k]) = TypeOf(s)

\* addSystem up to init(): the argument check, the duplicate check,
\* system.game = this
AddSystemEntry ==
  /\ At("addSystem", "entry")
  /\ LET s == Top.u IN
     IF s \notin SysIds
     THEN Finish("ok", 0, <<Ev("warn", "can only add System", s, "")>>)
     ELSE IF hasTheSystem(s)
     THEN Finish("ok", 0, <<Ev("warn", "System has been added", s, "")>>)
     ELSE Goto([Top EXCEPT !.pc = "init"], <<Ev("set", "game", s, "")>>)
  /\ UNCHANGED <<game, Budget, destroyed, startCalls>>

\* system.init && system.init(...), not in a try block; then
\* setSystemObserver and initObserver
AddSystemInit ==
  /\ At("addSystem", "init")
  /\ LET s == Top.u IN
     IF sig = "none" /\ HasHook(s, "init")
     THEN CallHook(Top, s, "init")
     ELSE IF Outcome = "throw"
     THEN Finish("throw", 0, <<>>)
     ELSE Goto([Top EXCEPT !.pc = "awake"], <<Ev("set", "observer", s, "")>>)
  /\ UNCHANGED <<game, Budget, destroyed, startCalls>>

\* faulty variant: awake() outside the try block
AddSystemAwakeUnguarded ==
  /\ At("addSystem", "awake")
  /\ LET s == Top.u IN
     IF sig = "none" /\ HasHook(s, "awake")
     THEN /\ CallHook(Top, s, "awake")
          /\ UNCHANGED systems
     ELSE IF sig = "throw"
     THEN /\ Finish("throw", 0, <<>>)
          /\ UNCHANGED systems
     ELSE /\ systems' = Append(systems, s)
          /\ Finish("ok", s, <<>>)
  /\ UNCHANGED <<playing, started, scene, multiScenes, ticker, tickerOn,
                 listening, unitStarted, Budget, destroyed, startCalls>>

\* try { system.awake && system.awake() } catch; this.systems.push(system);
\* return system
AddSystemAwake ==
  /\ At("addSystem", "awake")
  /\ LET s == Top.u IN
     IF sig = "none" /\ HasHook(s, "awake")
     THEN /\ CallHook(Top, s, "awake")
          /\ UNCHANGED systems
     ELSE /\ systems' = Append(systems, s)
          /\ Finish("ok", s, Report(s, "awake"))
  /\ UNCHANGED <<playing, started, scene, multiScenes, ticker, tickerOn,
                 listening, unitStarted, Budget, destroyed, startCalls>>

\* the index removeSystem resolves its argument to (0: none)
RemoveIndex(u, m) ==
  LET ix == 1..Len(systems) IN
  CASE m = "name" -> FindIndex({k \in ix : NameOf(systems[k]) = u})
    [] m = "class" -> FindIndex({k \in ix : TypeOf(systems[k]) = u})
    [] m = "instance" -> FindIndex({k \in ix : systems[k] = u})
    [] OTHER -> 0

\* removeSystem up to destroy(): the lookup; destroy() is not in a try block
RemoveSystemEntry ==
  /\ At("removeSystem", "entry")
  /\ LET index == RemoveIndex(Top.u, Top.m) IN
     IF Top.m = "absent" \/ index = 0
     THEN /\ Finish("ok", 0, <<>>)
          /\ UNCHANGED systems
     ELSE IF HasHook(systems[index], "destroy")
     THEN /\ CallHook([Top EXCEPT !.pc = "destroy", !.i = index],
                      systems[index], "destroy")
          /\ UNCHANGED systems
     ELSE /\ systems' = Splice(systems, index)
          /\ Finish("ok", 0, <<>>)
  /\ UNCHANGED <<playing, started, scene, multiScenes, ticker, tickerOn,
                 listening, unitStarted, Budget, destroyed, startCalls>>

\* after destroy(): this.systems.splice(index, 1), unless destroy() threw
RemoveSystemDestroyed ==
  /\ At("removeSystem", "destroy")
  /\ sig # "none"
  /\ IF sig = "throw"
     THEN /\ Finish("throw", 0, <<>>)
          /\ UNCHANGED systems
     ELSE /\ systems' = Splice(systems, Top.i)
          /\ Finish("ok", 0, <<>>)
  /\ UNCHANGED <<playing, started, scene, multiScenes, ticker, tickerOn,
                 listening, unitStarted, Budget, destroyed, startCalls>>

\* the loops running over the array this.systems keep that array when
\* this.systems is assigned a new one
Detach(stk) ==
  [k \in 1..Len(stk) |->
     IF stk[k].live THEN [stk[k] EXCEPT !.live = FALSE, !.arr = systems]
     ELSE stk[k]]

\* for (const system of [...this.systems])
DestroySystemsEntry ==
  /\ At("destroySystems", "entry")
  /\ Goto(Enter(Top, "loop", FALSE, systems), <<>>)
  /\ UNCHANGED <<game, Budget, destroyed, startCalls>>

\* this.removeSystem(system) for each; then this.systems = []
DestroySystemsLoop ==
  /\ At("destroySystems", "loop")
  /\ LET f == Top IN
     IF sig = "throw"
     THEN /\ Finish("throw", 0, <<>>)
          /\ UNCHANGED systems
     ELSE IF sig = "ok"
     THEN /\ Goto([f EXCEPT !.i = f.i + 1], <<>>)
          /\ UNCHANGED systems
     ELSE IF f.i > Len(f.arr)
     THEN /\ systems' = <<>>
          /\ FinishTo(Detach(Pop), "ok", 0, <<>>)
     ELSE /\ CallSelf(f, "removeSystem", f.arr[f.i], "instance")
          /\ UNCHANGED systems
  /\ UNCHANGED <<playing, started, scene, multiScenes, ticker, tickerOn,
                 listening, unitStarted, Budget, destroyed, startCalls>>

(***************************************************************************)
(* The run state.  The Ticker is not part of Game.ts: start() makes it     *)
(* emit ticks, pause() makes it stop, and a call on the null ticker is a   *)
(* TypeError.                                                              *)
(***************************************************************************)
TickerEv(what) == <<Ev("ticker", what, 0, "")>>

\* start(): all of it
Start ==
  /\ At("start", "entry")
  /\ IF playing
     THEN /\ Finish("ok", 0, <<>>)
          /\ UNCHANGED <<playing, started, tickerOn>>
     ELSE IF ticker = "null"
     THEN /\ Finish("throw", 0, <<>>)
          /\ UNCHANGED <<playing, started, tickerOn>>
     ELSE /\ tickerOn' = TRUE
          /\ playing' = TRUE
          /\ started' = TRUE
          /\ Finish("ok", 0, TickerEv("start"))
  /\ UNCHANGED <<systems, scene, multiScenes, ticker, listening, unitStarted,
                 Budget, destroyed, startCalls>>

\* faulty variant: pause() without its guard
PauseEntryNoGuard ==
  /\ At("pause", "entry")
  /\ playing' = FALSE
  /\ IF ticker = "null"
     THEN /\ Finish("throw", 0, <<>>)
          /\ UNCHANGED tickerOn
     ELSE /\ tickerOn' = FALSE
          /\ IF GameObjectsThrows
             THEN Finish("throw", 0, TickerEv("pause"))
             ELSE Goto(Enter(Top, "compPause", FALSE,
                             ComponentsOf(getAllGameObjects)),
                       TickerEv("pause"))
  /\ UNCHANGED <<systems, started, scene, multiScenes, ticker, listening,
                 unitStarted, Budget, destroyed, startCalls>>

\* pause() up to the sweep: the guard, playing = false, ticker.pause(),
\* and this.gameObjects for gameObjectPause
PauseEntry ==
  /\ At("pause", "entry")
  /\ IF ~playing
     THEN /\ Finish("ok", 0, <<>>)
          /\ UNCHANGED <<playing, tickerOn>>
     ELSE /\ playing' = FALSE
          /\ IF ticker = "null"
             THEN /\ Finish("throw", 0, <<>>)
                  /\ UNCHANGED tickerOn
             ELSE /\ tickerOn' = FALSE
                  /\ IF GameObjectsThrows
                     THEN Finish("throw", 0, TickerEv("pause"))
                     ELSE Goto(Enter(Top, "compPause", FALSE,
                                     ComponentsOf(getAllGameObjects)),
                               TickerEv("pause"))
  /\ UNCHANGED <<systems, started, scene, multiScenes, ticker, listening,
                 unitStarted, Budget, destroyed, startCalls>>

\* gameObjectPause; its catch reports "onResume error"
PauseComponents ==
  HookLoop("pause", "compPause", "onPause", "onResume",
           Enter(Top, "sysPause", TRUE, <<>>))

\* triggerPause's loop over this.systems
PauseSystems ==
  HookLoop("pause", "sysPause", "onPause", "onPause",
           Enter(Top, "end", FALSE, <<>>))

PauseEnd ==
  /\ At("pause", "end")
  /\ Finish("ok", 0, <<>>)
  /\ UNCHANGED <<game, Budget, destroyed, startCalls>>

\* resume() up to the sweep: the guard, ticker.start(), this.gameObjects
ResumeEntry ==
  /\ At("resume", "entry")
  /\ IF playing
     THEN /\ Finish("ok", 0, <<>>)
          /\ UNCHANGED tickerOn
     ELSE IF ticker = "null"
     THEN /\ Finish("throw", 0, <<>>)
          /\ UNCHANGED tickerOn
     ELSE /\ tickerOn' = TRUE
          /\ IF GameObjectsThrows
             THEN Finish("throw", 0, TickerEv("start"))
             ELSE Goto(Enter(Top, "compResume", FALSE,
                             ComponentsOf(getAllGameObjects)),
                       TickerEv("start"))
  /\ UNCHANGED <<systems, playing, started, scene, multiScenes, ticker,
                 listening, unitStarted, Budget, destroyed, startCalls>>

\* gameObjectResume
ResumeComponents ==
  HookLoop("resume", "compResume", "onResume", "onResume",
           Enter(Top, "sysResume", TRUE, <<>>))

\* triggerResume's loop over this.systems
ResumeSystems ==
  HookLoop("resume", "sysResume", "onResume", "onResume",
           Enter(Top, "end", FALSE, <<>>))

\* this.playing = true, after the sweep
ResumeEnd ==
  /\ At("resume", "end")
  /\ playing' = TRUE
  /\ Finish("ok", 0, <<>>)
  /\ UNCHANGED <<systems, started, scene, multiScenes, ticker, tickerOn,
                 listening, unitStarted, Budget, destroyed, startCalls>>

(***************************************************************************)
(* destroy and loadScene.                                                  *)
(***************************************************************************)
\* removeAllListeners(); this.pause()
DestroyEntry ==
  /\ At("destroy", "entry")
  /\ listening' = FALSE
  /\ CallSelf([Top EXCEPT !.pc = "pause"], "pause", 0, "")
  /\ UNCHANGED <<systems, playing, started, scene, multiScenes, ticker,
                 tickerOn, unitStarted, Budget, destroyed, startCalls>>

\* this.scene.destroy(), a TypeError without a scene; this.destroySystems()
DestroyPaused ==
  /\ At("destroy", "pause")
  /\ sig # "none"
  /\ IF sig = "throw" \/ scene = NoScene
     THEN Finish("throw", 0, <<>>)
     ELSE CallSelf([Top EXCEPT !.pc = "destroySystems"], "destroySystems", 0, "")
  /\ UNCHANGED <<game, Budget, destroyed, startCalls>>

\* this.ticker = null; this.scene = null; this.canvas = null;
\* this.multiScenes = null
DestroyEnd ==
  /\ At("destroy", "destroySystems")
  /\ sig # "none"
  /\ IF sig = "throw"
     THEN /\ Finish("throw", 0, <<>>)
          /\ UNCHANGED <<ticker, scene, multiScenes, destroyed>>
     ELSE /\ ticker' = "null"
          /\ scene' = NoScene
          /\ multiScenes' = NullArr
          /\ destroyed' = TRUE
          /\ Finish("ok", 0, <<>>)
  /\ UNCHANGED <<systems, playing, started, tickerOn, listening, unitStarted,
                 Budget, startCalls>>

\* loadScene: all of it
LoadScene ==
  /\ At("loadScene", "entry")
  /\ LET sc == Top.u
         emit == <<[Ev("emit", "sceneChanged", sc, Top.m) EXCEPT !.p = Top.p]>>
     IN IF sc = NoScene
        THEN /\ Finish("ok", 0, <<>>)
             /\ UNCHANGED <<scene, multiScenes>>
        ELSE IF Top.m = "SINGLE"
        THEN /\ scene' = sc
             /\ Finish("ok", 0, emit)
             /\ UNCHANGED multiScenes
        ELSE IF multiScenes = NullArr
        THEN \* null.push
             /\ Finish("throw", 0, <<>>)
             /\ UNCHANGED <<scene, multiScenes>>
        ELSE /\ multiScenes' = Append(multiScenes, sc)
             /\ Finish("ok", 0, emit)
             /\ UNCHANGED scene
  /\ UNCHANGED <<systems, playing, started, ticker, tickerOn, listening,
                 unitStarted, Budget, destroyed, startCalls>>

(***************************************************************************)
(* The Game after its constructor, and the specification.                  *)
(***************************************************************************)
\* the systems option of the constructor
InitSystems == {<<>>, <<1>>, <<2>>, <<1, 2>>, <<1, 2, 3>>}

\* new Game({autoStart, systems, needScene}): the ticker, addSystem for
\* each system, the scene "scene" when needScene, start() when autoStart
Init ==
  /\ systems \in InitSystems
  /\ \E autoStart \in BOOLEAN :
       /\ playing = autoStart
       /\ started = autoStart
       /\ tickerOn = autoStart
  /\ scene \in {NoScene, 1}
  /\ multiScenes = <<>>
  /\ ticker = "ticker"
  /\ listening = TRUE
  /\ unitStarted = [u \in Units |-> FALSE]
  /\ stack = <<>>
  /\ sig = "none"
  /\ log = <<>>
  /\ ops = 0
  /\ calls = 0
  /\ throws = 0
  /\ destroyed = FALSE
  /\ startCalls = [u \in Units |-> 0]

HookSteps == HookReturn \/ HookThrow

TickSteps ==
  \/ Tick \/ TickEntry \/ TickCompUpdate \/ TickCompStarted
  \/ TickCompLateUpdate \/ TickSysUpdate \/ TickSysStarted
  \/ TickSysLateUpdate \/ TickEnd

RegistrySteps ==
  \/ AddSystemEntry \/ AddSystemInit \/ AddSystemAwake
  \/ RemoveSystemEntry \/ RemoveSystemDestroyed
  \/ DestroySystemsEntry \/ DestroySystemsLoop

RunSteps ==
  \/ Start \/ PauseEntry \/ PauseComponents \/ PauseSystems \/ PauseEnd
  \/ ResumeEntry \/ ResumeComponents \/ ResumeSystems \/ ResumeEnd

DestroySteps == DestroyEntry \/ DestroyPaused \/ DestroyEnd

\* every method, called from anywhere
Next ==
  \/ AppCall \/ HookCall \/ HookSteps \/ TickSteps \/ RegistrySteps
  \/ RunSteps \/ DestroySteps \/ LoadScene

Spec == Init /\ [][Next]_vars

\* the registry: addSystem, removeSystem and destroySystems, called by the
\* application and by the hooks of ticks and of the registry itself
RegistryCalls ==
  {c \in UserCalls : c[1] \in {"addSystem", "removeSystem", "destroySystems"}}

NextRegistry ==
  \/ AppCallOf(RegistryCalls) \/ HookCallOf(RegistryCalls)
  \/ HookSteps \/ TickSteps \/ RegistrySteps

SpecRegistry == Init /\ [][NextRegistry]_vars

\* the run state: start, pause, resume and destroy, called by the
\* application and by the hooks of ticks and of the sweeps
RunCalls == {c \in UserCalls : c[1] \in {"start", "pause", "resume", "destroy"}}

NextRun ==
  \/ AppCallOf(RunCalls) \/ HookCallOf(RunCalls)
  \/ HookSteps \/ TickSteps \/ RunSteps \/ DestroySteps
  \/ RemoveSystemEntry \/ RemoveSystemDestroyed
  \/ DestroySystemsEntry \/ DestroySystemsLoop

SpecRun == Init /\ [][NextRun]_vars

\* the scenes: loadScene, with start, pause and resume, called by the
\* application and by the hooks of ticks and of the sweeps
SceneCalls == {c \in UserCalls : c[1] \in {"loadScene", "start", "pause", "resume"}}

NextScenes ==
  \/ AppCallOf(SceneCalls) \/ HookCallOf(SceneCalls)
  \/ HookSteps \/ TickSteps \/ RunSteps \/ LoadScene

SpecScenes == Init /\ [][NextScenes]_vars

\* the run state alone: start, pause and resume, called by the application
\* and, up to MaxRunCalls times in an operation, by the hooks
RunStateCalls == {c \in UserCalls : c[1] \in {"start", "pause", "resume"}}

NextRunState ==
  \/ AppCallOf(RunStateCalls) \/ HookCallUpTo(RunStateCalls, MaxRunCalls)
  \/ HookSteps \/ TickSteps \/ RunSteps

SpecRunState == Init /\ [][NextRunState]_vars

\* the frames: nothing but ticks, whose hooks call addSystem, removeSystem
\* and destroySystems
NextTicks ==
  \/ HookCallOf(RegistryCalls) \/ HookSteps \/ TickSteps \/ RegistrySteps

SpecTicks == Init /\ [][NextTicks]_vars

(***************************************************************************)
(* The claims.                                                             *)
(***************************************************************************)
Last(q) == q[Len(q)]

\* the top-level operation in progress, or just ended, is op
Operation(op) == log # <<>> /\ log[1].op = op

\* a call of method op ended with an exception reaching its caller
Escaped(e, opset) == e.k = "ret" /\ e.op \in opset /\ e.m = "throw"

\* C1: the registry never holds two entries of the same concrete System
\* type, whatever addSystem / removeSystem / destroySystems calls were made,
\* from the application or from inside hooks
OneInstancePerType ==
  \A i, j \in 1..Len(systems) :
    i # j => TypeOf(systems[i]) # TypeOf(systems[j])

\* some registered system has the constructor of s
TypeRegistered(s) == \E k \in 1..Len(systems) : TypeOf(systems[k]) = TypeOf(s)

\* C2: addSystem of a System whose concrete type is registered returns
\* nothing and leaves the registry as it is; no back-reference, init,
\* observer wiring or awake happens for the rejected instance
DuplicateRejected ==
  [][(At("addSystem", "entry") /\ Top.u \in SysIds /\ TypeRegistered(Top.u))
       => /\ systems' = systems
          /\ stack' = Pop
          /\ Last(log') = Ev("ret", "addSystem", 0, "ok")
          /\ \A k \in (Len(log) + 1)..Len(log') :
               log'[k].k \notin {"hook", "set"}]_vars

\* a second instance (4) of the class of a registered system (1) was
\* rejected
DuplicateRejectedSeen ==
  /\ Idle
  /\ Len(log) = 3
  /\ log[1] = Ev("call", "addSystem", 4, "")
  /\ log[2].k = "warn"
  /\ log[3] = Ev("ret", "addSystem", 0, "ok")
  /\ 1 \in Range(systems)
  /\ 4 \notin Range(systems)

\* the hooks the frame callback dispatches, and the phase each belongs to:
\* 1 Component update (with start), 2 Component lateUpdate, 3 System update
\* (with start), 4 System lateUpdate
Dispatched(e) == e.k = "hook" /\ e.op \in {"start", "update", "lateUpdate"}
Phase(e) ==
  IF e.u \in CompIds
  THEN (IF e.op = "lateUpdate" THEN 2 ELSE 1)
  ELSE (IF e.op = "lateUpdate" THEN 4 ELSE 3)
DispatchedFrames ==
  {k \in 1..Len(stack) :
     stack[k].op = "hook" /\ stack[k].pc \in {"start", "update", "lateUpdate"}}

\* C3: within a tick the phases follow each other: no dispatched hook
\* begins while another is running, none of an earlier phase begins after
\* one of a later phase, every Component has had its update before the
\* first lateUpdate, and its lateUpdate before the first System hook
TickPhases ==
  Operation("tick") =>
    LET D == {i \in 1..Len(log) : Dispatched(log[i])}
        comps == Range(ComponentsOf(getAllGameObjects))
        done(h) == {log[i].u : i \in {k \in D : log[k].op = h}}
    IN /\ Cardinality(DispatchedFrames) <= 1
       /\ \A i, j \in D : i < j => Phase(log[i]) <= Phase(log[j])
       /\ (\E j \in D : Phase(log[j]) >= 2)
            => \A c \in comps : HasHook(c, "update") => c \in done("update")
       /\ (\E j \in D : Phase(log[j]) >= 3)
            => \A c \in comps :
                 HasHook(c, "lateUpdate") => c \in done("lateUpdate")

\* a tick has ended that went through the four phases, one update having
\* thrown
TickPhasesSeen ==
  /\ Idle
  /\ Operation("tick")
  /\ \A ph \in 1..4 :
       \E i \in 1..Len(log) : Dispatched(log[i]) /\ Phase(log[i]) = ph
  /\ \E i \in 1..Len(log) : log[i].k = "error" /\ log[i].op = "update"

\* the frame callback is in triggerStart for unit u
StartPending(u) ==
  \E k \in 1..Len(stack) :
    stack[k].op = "tick" /\ stack[k].pc \in {"start", "sysStart"}
      /\ stack[k].u = u

\* C4: started of a unit goes from false to true once, in the tick that
\* first dispatches it, whether start() throws or not; it is never reset,
\* and start() is invoked at most once
StartedOnce ==
  /\ [](\A u \in Units :
          /\ startCalls[u] <= 1
          /\ (unitStarted[u] /\ HasHook(u, "start")) => startCalls[u] = 1
          /\ (startCalls[u] = 1 /\ ~StartPending(u)) => unitStarted[u]
          /\ \A k \in 1..Len(stack) :
               (stack[k].op = "hook" /\ stack[k].pc = "update"
                  /\ stack[k].u = u) => unitStarted[u])
  /\ [][\A u \in Units :
          /\ unitStarted[u] => unitStarted'[u]
          /\ (~unitStarted[u] /\ unitStarted'[u])
               => (~Idle /\ Top.op = "tick"
                     /\ (Top.u = u \/ (Top.u = 0 /\ Arr(Top)[Top.i] = u)))]_vars

\* start() of a registered system threw, the system is started and its
\* update was called
StartedOnceSeen ==
  \E u \in SysIds : \E i, j \in 1..Len(log) :
    /\ i < j
    /\ log[i] = Ev("error", "start", u, "")
    /\ log[j] = Ev("hook", "update", u, "")
    /\ unitStarted[u]
    /\ startCalls[u] = 1

\* C5: when destroySystems() has ended, normally or not, the registry is
\* empty
DestroySystemsEmpties ==
  (log # <<>> /\ Last(log).k = "ret" /\ Last(log).op = "destroySystems")
    => systems = <<>>

\* C6: no call of start, pause, resume, addSystem or removeSystem ends with
\* an exception reaching its caller
NoExceptionEscapes ==
  \A k \in 1..Len(log) :
    ~Escaped(log[k], {"start", "pause", "resume", "addSystem", "removeSystem"})

\* C7: once destroy() has run, the ticker is not running and playing is
\* false whenever the Game is at rest
DestroyIsFinal == (destroyed /\ Idle) => (~tickerOn /\ ~playing)

\* the state destroy() leaves
TornDown ==
  /\ ticker = "null"
  /\ scene = NoScene
  /\ multiScenes = NullArr
  /\ systems = <<>>
  /\ ~playing

\* C8: destroy() called by the application on a Game already destroyed
\* ends without error and leaves it torn down
DestroyIdempotent ==
  [][(Depth = 1 /\ Top.op = "destroy" /\ destroyed /\ stack' = <<>>)
       => (Last(log').m = "ok" /\ TornDown')]_vars

\* C9: start() on a playing Game and pause() on a Game that is not playing
\* do nothing: no state change, no ticker call, no hook
RedundantCallsDoNothing ==
  [][((At("start", "entry") /\ playing) \/ (At("pause", "entry") /\ ~playing))
       => /\ UNCHANGED game
          /\ stack' = Pop
          /\ log' = Append(log, Ev("ret", Top.op, 0, "ok"))]_vars

\* pause() was called on a Game already paused
RedundantPauseSeen ==
  /\ Idle
  /\ ops = 2
  /\ started
  /\ ~playing
  /\ ~destroyed
  /\ log = <<Ev("call", "pause", 0, ""), Ev("ret", "pause", 0, "ok")>>

\* the GameObjects of the secondary scenes, in load order
SecondaryGameObjects ==
  Flatten([k \in 1..Len(multiScenes) |-> SceneGameObjects(multiScenes[k])])

\* the event loadScene emits
SceneChanged(f) == [Ev("emit", "sceneChanged", f.u, f.m) EXCEPT !.p = f.p]

\* C10: loadScene with a scene sets the primary scene (SINGLE) or appends
\* to the secondary scenes (MULTI_CANVAS), leaves the other alone, emits one
\* sceneChanged with its arguments, and the gameObjects accessor is the
\* primary scene's GameObjects followed by the secondary scenes' in load
\* order; without a scene it changes and emits nothing
LoadSceneEffect ==
  [][At("loadScene", "entry")
       => /\ stack' = Pop
          /\ IF Top.u = NoScene
             THEN /\ UNCHANGED game
                  /\ log' = Append(log, Ev("ret", "loadScene", 0, "ok"))
             ELSE /\ log' = log \o <<SceneChanged(Top),
                                     Ev("ret", "loadScene", 0, "ok")>>
                  /\ IF Top.m = "SINGLE"
                     THEN /\ scene' = Top.u
                          /\ multiScenes' = multiScenes
                          /\ getAllGameObjects'
                               = SceneGameObjects(Top.u) \o SecondaryGameObjects
                     ELSE /\ scene' = scene
                          /\ multiScenes' = Append(multiScenes, Top.u)
                          /\ getAllGameObjects'
                               = getAllGameObjects \o SceneGameObjects(Top.u)]_vars

\* scene 2 was loaded SINGLE, then scene 1 MULTI_CANVAS
LoadSceneSeen ==
  /\ Idle
  /\ scene = 2
  /\ multiScenes = <<1>>
  /\ getAllGameObjects = <<2, 1>>
  /\ Len(log) = 3
  /\ log[2].k = "emit" /\ log[2].u = 1 /\ log[2].m = "MULTI_CANVAS"

\* C11: addSystem whose awake() throws still appends the system at the end
\* of the registry and returns it; the failure is reported, naming the
\* system and awake, and does not reach the caller
AwakeFailureContained ==
  [][(At("addSystem", "awake") /\ sig = "throw")
       => /\ systems' = Append(systems, Top.u)
          /\ stack' = Pop
          /\ sig' # "throw"
          /\ log' = log \o <<Ev("error", "awake", Top.u, ""),
                              Ev("ret", "addSystem", Top.u, "ok")>>]_vars

\* the application added a system whose awake() threw
AwakeFailureSeen ==
  /\ Idle
  /\ Len(log) = 7
  /\ \E s \in SysIds :
       /\ log[1] = Ev("call", "addSystem", s, "")
       /\ log[5] = Ev("hook", "awake", s, "")
       /\ log[6] = Ev("error", "awake", s, "")
       /\ log[7] = Ev("ret", "addSystem", s, "ok")
       /\ systems # <<>>
       /\ Last(systems) = s

\* the positions of the registry holding s, a system named as s, a system
\* of the class of s
SameInstance(s) == {k \in 1..Len(systems) : systems[k] = s}
SameName(s) == {k \in 1..Len(systems) : NameOf(systems[k]) = NameOf(s)}
SameType(s) == {k \in 1..Len(systems) : TypeOf(systems[k]) = TypeOf(s)}

\* the registry without s
Without(s) == SelectSeq(systems, LAMBDA x : x # s)

\* C12: removeSystem by name, by constructor and by instance resolve to the
\* same registered instance when each identifies it alone, and the call
\* then removes that instance and nothing else, after its destroy();
\* with an identifier matching nothing, or none, the registry is unchanged
\* and no hook is called
RemoveSystemSameTarget ==
  /\ [](\A s \in Range(systems) :
          (Cardinality(SameInstance(s)) = 1 /\ Cardinality(SameName(s)) = 1
             /\ Cardinality(SameType(s)) = 1)
            => /\ systems[RemoveIndex(s, "instance")] = s
               /\ RemoveIndex(NameOf(s), "name") = RemoveIndex(s, "instance")
               /\ RemoveIndex(TypeOf(s), "class") = RemoveIndex(s, "instance"))
  /\ [][(At("removeSystem", "entry")
           /\ (Top.m = "absent" \/ RemoveIndex(Top.u, Top.m) = 0))
          => /\ systems' = systems
             /\ stack' = Pop
             /\ log' = Append(log, Ev("ret", "removeSystem", 0, "ok"))]_vars
  /\ [][(At("removeSystem", "destroy") /\ sig # "none"
           /\ Top.m = "instance" /\ Cardinality(SameInstance(Top.u)) <= 1)
          => /\ systems' = Without(Top.u)
             /\ Last(log') = Ev("ret", "removeSystem", 0, "ok")]_vars

\* the hooks other than start() the operation invoked so far, in order
HookEvents == SelectSeq(log, LAMBDA e : e.k = "hook" /\ e.op # "start")

\* the invocations of hook h on the units of us that have it, in order
Hooks(us, h) ==
  LET having == SelectSeq(us, LAMBDA u : HasHook(u, h))
  IN [k \in 1..Len(having) |-> Ev("hook", h, having[k], "")]

\* C13: a throwing hook aborts neither a frame nor a sweep.  In a tick, a
\* pause or a resume during which hooks may throw (and make no call of
\* their own), every Component and every System receives its update and
\* its lateUpdate (its onPause, its onResume) once, in order, the failing
\* unit its lateUpdate too, and the run state changes as without failure
SweepsComplete ==
  (Idle /\ calls = 0 /\ log # <<>>) =>
    LET comps == ComponentsOf(getAllGameObjects) IN
    /\ (Operation("tick") /\ (scene # NoScene \/ multiScenes = <<>>))
         => /\ Last(log) = Ev("ret", "tick", 0, "ok")
            /\ HookEvents = Hooks(comps, "update") \o Hooks(comps, "lateUpdate")
                              \o Hooks(systems, "update")
                              \o Hooks(systems, "lateUpdate")
    /\ (Operation("pause") /\ Len(log) > 2)
         => /\ Last(log) = Ev("ret", "pause", 0, "ok")
            /\ ~playing /\ ~tickerOn
            /\ HookEvents = Hooks(comps, "onPause") \o Hooks(systems, "onPause")
    /\ (Operation("resume") /\ Len(log) > 2)
         => /\ Last(log) = Ev("ret", "resume", 0, "ok")
            /\ playing /\ tickerOn
            /\ HookEvents = Hooks(comps, "onResume")
                              \o Hooks(systems, "onResume")

\* a tick has ended in which update() of the first Component threw: that
\* Component had its lateUpdate and the Systems their update
FailedUpdateContinued ==
  /\ Idle
  /\ calls = 0
  /\ Operation("tick")
  /\ systems # <<>>
  /\ \E i, j, k \in 1..Len(log) :
       /\ i < j /\ j < k
       /\ log[i] = Ev("error", "update", 11, "")
       /\ log[j] = Ev("hook", "lateUpdate", 11, "")
       /\ log[k] = Ev("hook", "update", systems[1], "")

\* this step is the frame callback invoking hook h of System s
Dispatches(s, h) ==
  /\ ~Idle
  /\ Top.op = "tick"
  /\ Len(stack') = Depth + 1
  /\ stack'[Depth + 1] = HookFrame(s, h)

\* the operation in progress called destroySystems
SystemsDestroyed ==
  \E k \in 1..Len(log) : log[k].k = "call" /\ log[k].op = "destroySystems"

\* C14: a System removed by removeSystem, from whatever hook, gets no
\* update and no lateUpdate from then on: the frame callback begins these
\* hooks on registered systems only
RemovedNotDispatched ==
  [][\A s \in SysIds : \A h \in {"update", "lateUpdate"} :
       (Dispatches(s, h) /\ ~SystemsDestroyed) => s \in Range(systems)]_vars

\* how many times the operation invoked hook h of unit u
Invocations(u, h) ==
  Cardinality({k \in 1..Len(log) : log[k] = Ev("hook", h, u, "")})

\* addSystem(s) returned s during the operation
AddedNow(s) == \E k \in 1..Len(log) : log[k] = Ev("ret", "addSystem", s, "ok")

\* C15: removals made by hooks during a tick never make the traversal skip
\* another System: a System registered from the beginning of the tick to
\* its end has had one update and one lateUpdate when the tick ends
NoSystemSkipped ==
  (Idle /\ Operation("tick") /\ Last(log) = Ev("ret", "tick", 0, "ok"))
    => \A s \in Range(systems) :
         (~AddedNow(s) /\ Cardinality(SameInstance(s)) = 1)
           => /\ HasHook(s, "update") => Invocations(s, "update") = 1
              /\ HasHook(s, "lateUpdate") => Invocations(s, "lateUpdate") = 1

\* the systems a Game can have from its constructor
Constructed == UNION {Range(q) : q \in InitSystems}

\* C16: a System added by a hook during a tick and not removed afterwards
\* receives one update and one lateUpdate in the next tick, its start()
\* having been invoked at most once
AddedSystemDispatchedOnce ==
  (Idle /\ ops = 2 /\ Operation("tick")
     /\ Last(log) = Ev("ret", "tick", 0, "ok"))
    => \A s \in Range(systems) \ Constructed :
         (~AddedNow(s) /\ Cardinality(SameInstance(s)) = 1)
           => /\ startCalls[s] <= 1
              /\ HasHook(s, "update") => Invocations(s, "update") = 1
              /\ HasHook(s, "lateUpdate") => Invocations(s, "lateUpdate") = 1

\* C17: a tick dispatches update and lateUpdate to every Component of every
\* GameObject of every active scene, the primary scene if there is one and
\* every secondary scene, also when there is no primary scene
AllScenesDispatched ==
  (Idle /\ calls = 0 /\ Operation("tick")
     /\ Last(log) = Ev("ret", "tick", 0, "ok"))
    => \A c \in Range(ComponentsOf(getAllGameObjects)) :
         /\ HasHook(c, "update") => Invocations(c, "update") = 1
         /\ HasHook(c, "lateUpdate") => Invocations(c, "lateUpdate") = 1

\* this step deletes the entry at position i of the registry and keeps
\* the others in their order
Deletes(i) ==
  /\ Len(systems') = Len(systems) - 1
  /\ \A j \in 1..Len(systems') :
       systems'[j] = IF j < i THEN systems[j] ELSE systems[j + 1]

\* the System hooks among HookEvents
SystemHookEvents == SelectSeq(HookEvents, LAMBDA e : e.u \in SysIds)

\* C18: the registry is in registration order: addSystem appends at the
\* end, removeSystem deletes one entry and keeps the others in their order
\* (destroySystems leaves it empty), and a tick visits the systems in the
\* order of the registry
RegistryKeepsOrder ==
  /\ [][\/ systems' = systems
        \/ /\ At("addSystem", "awake")
           /\ systems' = Append(systems, Top.u)
        \/ /\ ~Idle
           /\ Top.op = "removeSystem"
           /\ \E i \in 1..Len(systems) : Deletes(i)
        \/ /\ At("destroySystems", "loop")
           /\ systems' = <<>>]_vars
  /\ []((Idle /\ calls = 0 /\ Operation("tick"))
          => SystemHookEvents = Hooks(systems, "update")
                                \o Hooks(systems, "lateUpdate"))

\* the application removed the second of three systems: the first and the
\* third are left, in that order
MiddleRemoved ==
  /\ Idle
  /\ systems = <<1, 3>>
  /\ log[1] = Ev("call", "removeSystem", 2, "instance")
  /\ Last(log) = Ev("ret", "removeSystem", 0, "ok")
  /\ Invocations(2, "destroy") = 1

\* C19: whenever no operation is in progress on a Game that was not
\* destroyed, playing is true exactly when the ticker is running, after
\* any start, pause and resume calls, from the application or from hooks
PlayingIffTicking == (Idle /\ ~destroyed) => (playing <=> tickerOn)

\* C20: no System receives update or lateUpdate while its started flag is
\* false: the frame callback begins these hooks on started systems only
StartedBeforeUpdate ==
  [][\A s \in SysIds : \A h \in {"update", "lateUpdate"} :
       Dispatches(s, h) => unitStarted[s]]_vars

=============================================================================
